---- MODULE Spec2Model ----
(***************************************************************************)
(* Gateway RPC transport: the one-shot callGateway orchestrator and the   *)
(* GatewayClient it drives.  Every callback of the single-threaded event  *)
(* loop (socket event, timer expiry, promise continuation) is one action; *)
(* a callback's body is a pure function from the world before it to the   *)
(* world after it, composed in program order.                             *)
(***************************************************************************)
EXTENDS Integers, Sequences, FiniteSets, TLC

(***************************************************************************)
(* Bounds of the model.                                                    *)
(***************************************************************************)
MaxTimeout == 2
MaxProtocol == 2
MaxId == 2
MaxFrames == 2
MaxInvocations == 2
MaxSegments == 3
MaxBaseLen == 3
MaxPathLen == 3

MaxTime == MaxTimeout + 1
Timeouts == 0..MaxTimeout
Protocols == 1..MaxProtocol
AckProtocols == 0..(MaxProtocol + 1)
CorrelationIds == 1..MaxId
\* The clock readings at which callGateway may be invoked.
StartTimes == {0, 1}

(***************************************************************************)
(* JavaScript values, as far as callGateway looks at them: a type tag, a  *)
(* number and a text (a sequence of pieces; the empty string is <<>>).     *)
(***************************************************************************)
Undefined == [t |-> "undefined", n |-> 0, msg |-> <<>>]
Str(s) == [t |-> "string", n |-> 0, msg |-> s]
Err(m) == [t |-> "Error", n |-> 0, msg |-> m]

Null == [t |-> "null", n |-> 0, msg |-> <<>>]
Num(k) == [t |-> "number", n |-> k, msg |-> <<>>]

\* ToBoolean: what `if (err)` tests.
Truthy(v) ==
    CASE v.t = "undefined" -> FALSE
      [] v.t = "null" -> FALSE
      [] v.t = "number" -> v.n # 0
      [] v.t = "string" -> v.msg # <<>>
      [] OTHER -> TRUE

\* Mutant of CloseError: the reason is left out of the message.
CloseErrorNoReason(code, reason) ==
    Err(<<"gateway closed (", ToString(code), ")">>)

\* new Error(`gateway closed (${code}): ${reason}`)
CloseError(code, reason) ==
    Err(<<"gateway closed (", ToString(code), "): ", reason>>)

\* new Error("gateway timeout")
TimeoutError == Err(<<"gateway timeout">>)

ResultValues == {Str(<<"pong">>), Str(<<"done">>), Undefined}
RejectValues == {Err(<<"unknown method">>), Undefined, Str(<<>>)}
Methods == {"ping"}

\* Close codes and reasons a socket can end with.
CloseCodes == {1000, 1006}
CloseReasons == {"", "going away"}
CloseEvents == {<<1000, "">>, <<1006, "going away">>}

\* The synthetic close the client reports for a failed handshake, and the
\* close it reports for its own stop().
NegotiationCode == 4001
MalformedCode == 4002
StopCode == 1000
NegotiationReason == "negotiation failed"
MalformedReason == "malformed hello-ack"
StopReason == "client stopped"
AbandonedError == Err(<<"gateway client closed">>)

VARIABLES
    rawOpts,        \* the CallGatewayOptions a caller passes
    config,         \* timeoutMs and what new GatewayClient({...}) is given
    uuidCalls,      \* calls of randomUUID() so far
    issuedIds,      \* the ids randomUUID() returned, in order
    invocations,    \* invocations of callGateway whose options were resolved
    cmdParams,      \* the params handleCommands is called with
    cmdResult,      \* what handleCommands returned
    sessionEntry,   \* params.sessionEntry (an object shared with the caller)
    sessionStore,   \* params.sessionStore[sessionKey]
    savedStore,     \* what saveSessionStore last wrote for sessionKey
    abortMemory,    \* the keys setAbortMemory marked
    restarts,       \* calls of triggerClawdbotRestart()
    uiRequest,      \* the request handleControlUiHttpRequest is given
    uiResponse,     \* what it answered, and the file it served
    fsCalls,        \* file system calls made while handling the request
    navCase,        \* the tab or pathname, and the base path, navigation is given
    navPath,        \* the pathname handed to tabFromPath
    navResult,      \* what tabFromPath returned
    started,        \* callGateway has been invoked
    opts,           \* the options of the invocation
    settled,        \* let settled
    ignoreClose,    \* let ignoreClose
    timer,          \* "none" | "armed" | "cleared" | "fired"
    armedAt,        \* the time setTimeout was called
    promise,        \* the promise callGateway returns
    now,            \* wall clock
    clientState,    \* GatewayClient state machine
    socket,         \* "none" | "connecting" | "open" | "closing" | "closed"
    stopped,        \* client.stop() has taken effect
    pendingCalls,   \* the client's PendingCalls
    helloSent,      \* number of hello frames sent
    requestFrames,  \* the request frames sent, in order
    reqPromise,     \* the promise client.request() returned
    contDone,       \* the code after `await client.request()` has run
    helloOkFired,   \* number of onHelloOk notifications
    partialsSeen,   \* history: partial frames received for the pending id
    foreignSeen,    \* history: a frame with another correlation id was received
    hooksRegistered,\* the client holds the onHelloOk and onClose hooks
    startLog,       \* history: hooks and timer at each client.start() call
    lostEvents,     \* history: notifications raised with no hook to take them
    lastAck,        \* history: the hello-ack the peer sent
    settleCalls,    \* history: calls of resolve() and reject()
    clientStopLog,  \* history: ignoreClose at each client.stop() call site
    requestsIssued, \* history: calls of client.request()
    closeLog        \* history: every onClose notification and what it did

defaultsVars == <<rawOpts, config, uuidCalls, issuedIds, invocations>>

commandVars == <<cmdParams, cmdResult, sessionEntry, sessionStore, savedStore,
                 abortMemory, restarts>>

uiVars == <<uiRequest, uiResponse, fsCalls>>

navVars == <<navCase, navPath, navResult>>

\* The state of the components other than the gateway call.
sideVars == <<defaultsVars, commandVars, uiVars, navVars>>

gatewayVars ==
    <<started, opts, settled, ignoreClose, timer, armedAt, promise, now,
      clientState, socket, stopped, pendingCalls, helloSent, requestFrames,
      reqPromise, contDone, helloOkFired, partialsSeen, foreignSeen,
      hooksRegistered, startLog, lostEvents, lastAck, settleCalls,
      clientStopLog, requestsIssued, closeLog>>

vars == <<sideVars, started, opts, settled, ignoreClose, timer, armedAt, promise, now,
          clientState, socket, stopped, pendingCalls, helloSent, requestFrames,
          reqPromise, contDone, helloOkFired, partialsSeen, foreignSeen,
          hooksRegistered, startLog, lostEvents, lastAck, settleCalls, clientStopLog, requestsIssued,
          closeLog>>

\* The world a callback runs in.
World ==
    [started |-> started, opts |-> opts, settled |-> settled,
     ignoreClose |-> ignoreClose, timer |-> timer, armedAt |-> armedAt,
     promise |-> promise, now |-> now, clientState |-> clientState,
     socket |-> socket, stopped |-> stopped, pendingCalls |-> pendingCalls,
     helloSent |-> helloSent, requestFrames |-> requestFrames,
     reqPromise |-> reqPromise, contDone |-> contDone,
     helloOkFired |-> helloOkFired, partialsSeen |-> partialsSeen,
     foreignSeen |-> foreignSeen,
     hooksRegistered |-> hooksRegistered,
     startLog |-> startLog, lostEvents |-> lostEvents, lastAck |-> lastAck,
     settleCalls |-> settleCalls,
     clientStopLog |-> clientStopLog, requestsIssued |-> requestsIssued,
     closeLog |-> closeLog]

\* The world a callback leaves behind.
Commit(w) ==
    /\ started' = w.started
    /\ opts' = w.opts
    /\ settled' = w.settled
    /\ ignoreClose' = w.ignoreClose
    /\ timer' = w.timer
    /\ armedAt' = w.armedAt
    /\ promise' = w.promise
    /\ now' = w.now
    /\ clientState' = w.clientState
    /\ socket' = w.socket
    /\ stopped' = w.stopped
    /\ pendingCalls' = w.pendingCalls
    /\ helloSent' = w.helloSent
    /\ requestFrames' = w.requestFrames
    /\ reqPromise' = w.reqPromise
    /\ contDone' = w.contDone
    /\ helloOkFired' = w.helloOkFired
    /\ partialsSeen' = w.partialsSeen
    /\ foreignSeen' = w.foreignSeen
    /\ hooksRegistered' = w.hooksRegistered
    /\ startLog' = w.startLog
    /\ lostEvents' = w.lostEvents
    /\ lastAck' = w.lastAck
    /\ settleCalls' = w.settleCalls
    /\ clientStopLog' = w.clientStopLog
    /\ requestsIssued' = w.requestsIssued
    /\ closeLog' = w.closeLog
    /\ UNCHANGED sideVars

NoOpts == [timeoutMs |-> 0, minProtocol |-> 1, maxProtocol |-> 1,
           expectFinal |-> FALSE, method |-> "ping"]
NoAck == [kind |-> "none", protocol |-> 0]
PendingPromise == [state |-> "pending", value |-> Undefined]
NoPromise == [state |-> "none", value |-> Undefined]

\* A promise takes the first resolve() or reject() and ignores the rest.
PromiseSettle(p, kind, v) ==
    IF p.state = "pending" THEN [state |-> kind, value |-> v] ELSE p

(***************************************************************************)
(* callGateway: the closure's functions.                                   *)
(***************************************************************************)

\* clearTimeout(timer)
clearTimeout(w) ==
    [w EXCEPT !.timer = IF @ = "armed" THEN "cleared" ELSE @]

\* Mutant of stop: the settled guard is missing.
stopNoGuard(w, err, value) ==
    LET w1 == clearTimeout([w EXCEPT !.settled = TRUE])
    IN  IF Truthy(err)
        THEN [w1 EXCEPT !.promise = PromiseSettle(@, "rejected", err),
                        !.settleCalls = @ + 1]
        ELSE [w1 EXCEPT !.promise = PromiseSettle(@, "fulfilled", value),
                        !.settleCalls = @ + 1]

\* Mutant of stop: the timer is not cleared.
stopNoClear(w, err, value) ==
    IF w.settled THEN w
    ELSE LET w1 == [w EXCEPT !.settled = TRUE]
         IN  IF Truthy(err)
             THEN [w1 EXCEPT !.promise = PromiseSettle(@, "rejected", err),
                             !.settleCalls = @ + 1]
             ELSE [w1 EXCEPT !.promise = PromiseSettle(@, "fulfilled", value),
                             !.settleCalls = @ + 1]

\* Mutant of stop: settled is set only on the resolving branch, after the test.
stopMarkOnResolve(w, err, value) ==
    IF w.settled THEN w
    ELSE LET w1 == clearTimeout(w)
         IN  IF Truthy(err)
             THEN [w1 EXCEPT !.promise = PromiseSettle(@, "rejected", err),
                             !.settleCalls = @ + 1]
             ELSE [w1 EXCEPT !.settled = TRUE,
                             !.promise = PromiseSettle(@, "fulfilled", value),
                             !.settleCalls = @ + 1]

\* Mutant of stop: settled is not set.
stopNoMark(w, err, value) ==
    IF w.settled THEN w
    ELSE LET w1 == clearTimeout(w)
         IN  IF Truthy(err)
             THEN [w1 EXCEPT !.promise = PromiseSettle(@, "rejected", err),
                             !.settleCalls = @ + 1]
             ELSE [w1 EXCEPT !.promise = PromiseSettle(@, "fulfilled", value),
                             !.settleCalls = @ + 1]

\* const stop = (err?, value?) => { ... }
stop(w, err, value) ==
    IF w.settled THEN w
    ELSE LET w1 == clearTimeout([w EXCEPT !.settled = TRUE])
         IN  IF Truthy(err)
             THEN [w1 EXCEPT !.promise = PromiseSettle(@, "rejected", err),
                             !.settleCalls = @ + 1]
             ELSE [w1 EXCEPT !.promise = PromiseSettle(@, "fulfilled", value),
                             !.settleCalls = @ + 1]

\* Mutant of onClose: stop() is called without the error.
onCloseResolves(w, code, reason) ==
    IF w.settled \/ w.ignoreClose
    THEN w
    ELSE stop(w, Undefined, Undefined)

\* Mutant of onClose: only the settled flag is tested.
onCloseNoIgnore(w, code, reason) ==
    IF w.settled
    THEN w
    ELSE stop(w, CloseError(code, reason), Undefined)

\* Mutant of onClose: the test is inverted.
onCloseInverted(w, code, reason) ==
    IF ~(w.settled \/ w.ignoreClose)
    THEN w
    ELSE stop(w, CloseError(code, reason), Undefined)

\* onClose: (code, reason) => { ... }
onClose(w, code, reason) ==
    IF w.settled \/ w.ignoreClose
    THEN w
    ELSE stop(w, CloseError(code, reason), Undefined)

(***************************************************************************)
(* GatewayClient.                                                          *)
(***************************************************************************)

\* The client notifies its owner of a close: this.opts.onClose(code, reason).
notifyClose(w, code, reason) ==
    LET w1 == IF w.hooksRegistered
              THEN onClose(w, code, reason)
              ELSE [w EXCEPT !.lostEvents = @ + 1]
    IN  [w1 EXCEPT !.closeLog = Append(@,
            [code |-> code, reason |-> reason,
             stopCalls |-> Len(w.clientStopLog),
             helloOk |-> w.helloOkFired,
             settled |-> w.settled, ignoreClose |-> w.ignoreClose,
             awaiting |-> (w.reqPromise.state = "pending"),
             promiseBefore |-> w.promise, promiseAfter |-> w1.promise,
             attempts |-> w1.settleCalls - w.settleCalls])]

\* Mutant of clientStop: every stop() closes and reports again.
clientStopAgain(w, sync) ==
    LET w1 == [w EXCEPT !.stopped = TRUE, !.clientState = "Closed"]
    IN  IF sync
        THEN notifyClose([w1 EXCEPT !.socket = "closed"], StopCode, StopReason)
        ELSE [w1 EXCEPT !.socket = "closing"]

\* client.stop(): idempotent; the socket's close is reported from inside
\* stop() (sync) or by a later close event.
clientStop(w, sync) ==
    IF w.stopped THEN w
    ELSE LET w1 == [w EXCEPT !.stopped = TRUE,
                             !.clientState =
                                 IF @ \in {"Closed", "Failed"} THEN @ ELSE "Closed"]
         IN  IF w.socket \in {"connecting", "open"}
             THEN IF sync
                  THEN notifyClose([w1 EXCEPT !.socket = "closed"], StopCode, StopReason)
                  ELSE [w1 EXCEPT !.socket = "closing"]
             ELSE w1

\* client.request(method, params, {expectFinal}) with a fresh correlation id.
clientRequest(w, id, method, expectFinal) ==
    IF w.clientState = "Ready" /\ w.pendingCalls = {}
    THEN [w EXCEPT !.clientState = "AwaitingResponse",
                   !.pendingCalls = {[id |-> id, method |-> method,
                                      expectFinal |-> expectFinal]},
                   !.requestFrames = Append(@, [id |-> id, method |-> method]),
                   !.reqPromise = PendingPromise]
    ELSE [w EXCEPT !.reqPromise =
              [state |-> "rejected", value |-> Err(<<"client not ready">>)]]

\* A count of frames the model keeps, up to MaxFrames.
CountFrame(n) == IF n < MaxFrames THEN n + 1 ELSE n

\* Mutant of handleFrame: the correlation id is not compared.
handleFrameAnyId(w, id, kind, final, v) ==
    LET match == w.pendingCalls
    IN  IF match = {} THEN [w EXCEPT !.foreignSeen = TRUE]
        ELSE IF kind = "partial" THEN [w EXCEPT !.partialsSeen = CountFrame(@)]
        ELSE IF (\E p \in match : p.expectFinal) /\ ~final THEN w
        ELSE [w EXCEPT !.pendingCalls = @ \ match,
                       !.clientState = "Ready",
                       !.foreignSeen = @ \/ ~(\E p \in match : p.id = id),
                       !.reqPromise =
                           [state |-> IF kind = "result" THEN "fulfilled" ELSE "rejected",
                            value |-> v]]

\* A frame received while a request may be outstanding.  Only the frame that
\* bears the pending correlation id and ends the exchange settles the request.
handleFrame(w, id, kind, final, v) ==
    LET match == {p \in w.pendingCalls : p.id = id}
    IN  IF match = {} THEN [w EXCEPT !.foreignSeen = TRUE]
        ELSE IF kind = "partial" THEN [w EXCEPT !.partialsSeen = CountFrame(@)]
        ELSE IF (\E p \in match : p.expectFinal) /\ ~final THEN w
        ELSE [w EXCEPT !.pendingCalls = @ \ match,
                       !.clientState = "Ready",
                       !.reqPromise =
                           [state |-> IF kind = "result" THEN "fulfilled" ELSE "rejected",
                            value |-> v]]

\* Is the protocol the peer confirmed inside the requested range?
InRange(w, protocol) ==
    w.opts.minProtocol <= protocol /\ protocol <= w.opts.maxProtocol

(***************************************************************************)
(* callGateway: the callbacks.                                             *)
(***************************************************************************)

\* Mutant of clientStopCall: the call site is there but the client is left
\* running.
clientStopCallSkipped(w, sync) ==
    [w EXCEPT !.clientStopLog = Append(@, w.ignoreClose)]

\* A client.stop() call site of callGateway.
clientStopCall(w, sync) ==
    clientStop([w EXCEPT !.clientStopLog = Append(@, w.ignoreClose)], sync)

\* Mutant of onHelloOk: expectFinal is not passed on.
onHelloOkNoExpectFinal(w, id) ==
    clientRequest([w EXCEPT !.helloOkFired = @ + 1, !.requestsIssued = @ + 1],
                  id, w.opts.method, FALSE)

\* Mutant of onHelloOk: the request is issued twice.
onHelloOkTwice(w, id) ==
    clientRequest(
        clientRequest([w EXCEPT !.helloOkFired = @ + 1, !.requestsIssued = @ + 2],
                      id, w.opts.method, w.opts.expectFinal),
        id, w.opts.method, w.opts.expectFinal)

\* Mutant of onHelloOk: the timer is armed again when the handshake completes.
onHelloOkRearm(w, id) ==
    clientRequest([w EXCEPT !.helloOkFired = @ + 1, !.requestsIssued = @ + 1,
                            !.timer = "armed", !.armedAt = w.now],
                  id, w.opts.method, w.opts.expectFinal)

\* onHelloOk: async () => { ... await client.request(...) : up to the await.
onHelloOk(w, id) ==
    clientRequest([w EXCEPT !.helloOkFired = @ + 1, !.requestsIssued = @ + 1],
                  id, w.opts.method, w.opts.expectFinal)

\* Mutant of requestResolved: the result is passed in the err position.
requestResolvedAsErr(w, sync) ==
    LET w1 == [w EXCEPT !.ignoreClose = TRUE, !.contDone = TRUE]
        w2 == stop(w1, w.reqPromise.value, Undefined)
    IN  clientStopCall(w2, sync)

\* onHelloOk after the await, the request resolved with result.
requestResolved(w, sync) ==
    LET w1 == [w EXCEPT !.ignoreClose = TRUE, !.contDone = TRUE]
        w2 == stop(w1, Undefined, w.reqPromise.value)
    IN  clientStopCall(w2, sync)

\* Mutant of requestRejected: the catch block does not set ignoreClose.
requestRejectedNoFlag(w, sync) ==
    LET w1 == [w EXCEPT !.contDone = TRUE]
        w2 == clientStopCall(w1, sync)
    IN  stop(w2, w.reqPromise.value, Undefined)

\* onHelloOk after the await, the request threw err.
requestRejected(w, sync) ==
    LET w1 == [w EXCEPT !.ignoreClose = TRUE, !.contDone = TRUE]
        w2 == clientStopCall(w1, sync)
    IN  stop(w2, w.reqPromise.value, Undefined)

\* Mutant of timerCallback: the call is not settled.
timerCallbackNoSettle(w, sync) ==
    LET w1 == [w EXCEPT !.ignoreClose = TRUE, !.timer = "fired"]
    IN  clientStopCall(w1, sync)

\* Mutant of timerCallback: the client is not stopped.
timerCallbackNoClientStop(w, sync) ==
    LET w1 == [w EXCEPT !.ignoreClose = TRUE, !.timer = "fired"]
    IN  stop(w1, TimeoutError, Undefined)

\* Mutant of timerCallback: ignoreClose is set after client.stop().
timerCallbackFlagLate(w, sync) ==
    LET w1 == [w EXCEPT !.timer = "fired"]
        w2 == clientStopCall(w1, sync)
        w3 == [w2 EXCEPT !.ignoreClose = TRUE]
    IN  stop(w3, TimeoutError, Undefined)

\* The setTimeout callback.
timerCallback(w, sync) ==
    LET w1 == [w EXCEPT !.ignoreClose = TRUE, !.timer = "fired"]
        w2 == clientStopCall(w1, sync)
    IN  stop(w2, TimeoutError, Undefined)

\* The client notifies its owner of the handshake: this.opts.onHelloOk().
notifyHelloOk(w, id) ==
    IF w.hooksRegistered
    THEN onHelloOk(w, id)
    ELSE [w EXCEPT !.lostEvents = @ + 1]

\* The hello-ack handler of the client.
handleHelloAck(w, kind, protocol, id) ==
    IF kind = "ok" /\ InRange(w, protocol)
    THEN notifyHelloOk([w EXCEPT !.clientState = "Ready"], id)
    ELSE IF kind = "malformed"
    THEN notifyClose([w EXCEPT !.clientState = "Failed"], MalformedCode, MalformedReason)
    ELSE notifyClose([w EXCEPT !.clientState = "Failed"], NegotiationCode, NegotiationReason)

\* The socket's close (or error) handler of the client.
handleSocketClose(w, code, reason) ==
    notifyClose([w EXCEPT !.socket = "closed",
                      !.clientState =
                          IF @ \in {"Closed", "Failed"} THEN @ ELSE "Closed"],
            code, reason)

\* client.start(): the socket starts connecting.
clientStart(w) ==
    [w EXCEPT !.clientState = "Connecting", !.socket = "connecting",
              !.startLog = Append(@, [hooks |-> w.hooksRegistered,
                                      timer |-> w.timer])]

\* new GatewayClient({..., onHelloOk, onClose})
newGatewayClient(w) ==
    [w EXCEPT !.clientState = "Idle", !.hooksRegistered = TRUE]

\* const timer = setTimeout(..., timeoutMs)
setTimer(w) ==
    [w EXCEPT !.timer = "armed", !.armedAt = w.now]

\* Mutant of callGatewayBody: client.start() is called before the timer is
\* armed.
callGatewayBodyStartFirst(w, o) ==
    LET w0 == [w EXCEPT !.started = TRUE, !.opts = o, !.settled = FALSE,
                        !.ignoreClose = FALSE, !.promise = PendingPromise]
    IN  setTimer(clientStart(newGatewayClient(w0)))

\* Mutant of callGatewayBody: the request is issued right after start(),
\* without waiting for onHelloOk.
callGatewayBodyEagerRequest(w, o) ==
    LET w0 == [w EXCEPT !.started = TRUE, !.opts = o, !.settled = FALSE,
                        !.ignoreClose = FALSE, !.promise = PendingPromise]
        w1 == clientStart(setTimer(newGatewayClient(w0)))
    IN  clientRequest([w1 EXCEPT !.requestsIssued = @ + 1],
                      1, o.method, o.expectFinal)

\* The body of callGateway's promise executor: the client is constructed with
\* its hooks, the timer is armed, client.start() is called.
callGatewayBody(w, o) ==
    LET w0 == [w EXCEPT !.started = TRUE, !.opts = o, !.settled = FALSE,
                        !.ignoreClose = FALSE, !.promise = PendingPromise]
    IN  clientStart(setTimer(newGatewayClient(w0)))

(***************************************************************************)
(* The event loop.                                                         *)
(***************************************************************************)

\* A promise continuation is queued: it runs before any other callback.
MicrotaskPending ==
    reqPromise.state \in {"fulfilled", "rejected"} /\ ~contDone

OptionSets ==
    {o \in [timeoutMs : Timeouts, minProtocol : Protocols, maxProtocol : Protocols,
            expectFinal : BOOLEAN, method : Methods] :
        o.minProtocol <= o.maxProtocol}

\* No option has been resolved.
NoConfig == [resolved |-> FALSE]
NoRawOpts == [given |-> FALSE]

DefaultsIdle ==
    /\ rawOpts = NoRawOpts
    /\ config = NoConfig
    /\ uuidCalls = 0
    /\ issuedIds = <<>>
    /\ invocations = 0

\* handleCommands has not been called.
NoParams == [given |-> FALSE]
NoResult == [returned |-> FALSE]
NoEntry == [present |-> FALSE]

CommandsIdle ==
    /\ cmdParams = NoParams
    /\ cmdResult = NoResult
    /\ sessionEntry = NoEntry
    /\ sessionStore = NoEntry
    /\ savedStore = NoEntry
    /\ abortMemory = {}
    /\ restarts = 0

\* No request has reached the control UI handler.
NoRequest == [given |-> FALSE]
NoResponse == [returned |-> FALSE]

UiIdle ==
    /\ uiRequest = NoRequest
    /\ uiResponse = NoResponse
    /\ fsCalls = 0

\* Navigation has not been asked anything.
NoCase == [kind |-> "none"]
NoPath == [set |-> FALSE]

NavIdle ==
    /\ navCase = NoCase
    /\ navPath = NoPath
    /\ navResult = "pending"

\* Before callGateway is invoked.
GatewayIdle ==
    /\ started = FALSE
    /\ opts = NoOpts
    /\ settled = FALSE
    /\ ignoreClose = FALSE
    /\ timer = "none"
    /\ armedAt = 0
    /\ promise = NoPromise
    /\ now = 0
    /\ clientState = "None"
    /\ socket = "none"
    /\ stopped = FALSE
    /\ pendingCalls = {}
    /\ helloSent = 0
    /\ requestFrames = <<>>
    /\ reqPromise = NoPromise
    /\ contDone = FALSE
    /\ helloOkFired = 0
    /\ partialsSeen = 0
    /\ foreignSeen = FALSE
    /\ hooksRegistered = FALSE
    /\ startLog = <<>>
    /\ lostEvents = 0
    /\ lastAck = NoAck
    /\ settleCalls = 0
    /\ clientStopLog = <<>>
    /\ requestsIssued = 0
    /\ closeLog = <<>>

Init == GatewayIdle /\ DefaultsIdle /\ CommandsIdle /\ UiIdle /\ NavIdle

CallGateway ==
    /\ ~started
    /\ \E o \in OptionSets : Commit(callGatewayBody(World, o))

Tick ==
    /\ IF started
       THEN timer = "armed" /\ now < armedAt + MaxTime
       ELSE now + 1 \in StartTimes
    /\ now' = now + 1
    /\ UNCHANGED <<started, opts, settled, ignoreClose, timer, armedAt, promise,
                   clientState, socket, stopped, pendingCalls, helloSent,
                   requestFrames, reqPromise, contDone, helloOkFired,
                   partialsSeen, foreignSeen,
                   hooksRegistered, startLog, lostEvents, lastAck,
                   settleCalls, clientStopLog, requestsIssued, closeLog>>
    /\ UNCHANGED sideVars

TimerFire ==
    /\ started /\ ~MicrotaskPending
    /\ timer = "armed"
    /\ now >= armedAt + opts.timeoutMs
    /\ \E sync \in BOOLEAN : Commit(timerCallback(World, sync))

SocketOpen ==
    /\ ~MicrotaskPending
    /\ socket = "connecting" /\ clientState = "Connecting"
    /\ Commit([World EXCEPT !.socket = "open", !.helloSent = @ + 1,
                            !.clientState = "Handshaking"])

HelloAck ==
    /\ ~MicrotaskPending
    /\ socket = "open" /\ clientState = "Handshaking"
    /\ \E kind \in {"ok", "reject", "malformed"}, id \in CorrelationIds :
       \E protocol \in (IF kind = "ok" THEN AckProtocols ELSE {0}) :
          Commit(handleHelloAck([World EXCEPT !.lastAck = [kind |-> kind,
                                                            protocol |-> protocol]],
                                kind, protocol, id))

ResponseFrame ==
    /\ ~MicrotaskPending
    /\ socket = "open" /\ clientState = "AwaitingResponse"
    /\ \E id \in CorrelationIds, kind \in {"partial", "result", "error"},
          final \in BOOLEAN :
          \E v \in (IF kind = "error" THEN RejectValues ELSE ResultValues) :
              Commit(handleFrame(World, id, kind, final, v))

SocketClose ==
    /\ ~MicrotaskPending
    /\ socket \in {"connecting", "open", "closing"}
    /\ \E ev \in CloseEvents :
          Commit(handleSocketClose(World, ev[1], ev[2]))

\* A request left outstanding when the connection ended may be failed by the
\* client.
RequestAbandoned ==
    /\ ~MicrotaskPending
    /\ pendingCalls # {} /\ reqPromise.state = "pending"
    /\ stopped \/ socket = "closed"
    /\ Commit([World EXCEPT !.pendingCalls = {},
                            !.reqPromise = [state |-> "rejected",
                                            value |-> AbandonedError]])

RequestResolved ==
    /\ reqPromise.state = "fulfilled" /\ ~contDone
    /\ \E sync \in BOOLEAN : Commit(requestResolved(World, sync))

RequestRejected ==
    /\ reqPromise.state = "rejected" /\ ~contDone
    /\ \E sync \in BOOLEAN : Commit(requestRejected(World, sync))

Next ==
    \/ CallGateway
    \/ Tick
    \/ TimerFire
    \/ SocketOpen
    \/ HelloAck
    \/ ResponseFrame
    \/ SocketClose
    \/ RequestAbandoned
    \/ RequestResolved
    \/ RequestRejected

Spec == Init /\ [][Next]_vars

\* The invocations followed for progress: every timeout and both values of
\* expectFinal, with the protocol range of the defaults (a single version).
LiveOptionSets ==
    {o \in OptionSets : o.minProtocol = 1 /\ o.maxProtocol = 1}

CallGatewayLive ==
    /\ ~started
    /\ \E o \in LiveOptionSets : Commit(callGatewayBody(World, o))

NextLive ==
    \/ CallGatewayLive
    \/ Tick
    \/ TimerFire
    \/ SocketOpen
    \/ HelloAck
    \/ ResponseFrame
    \/ SocketClose
    \/ RequestAbandoned
    \/ RequestResolved
    \/ RequestRejected

\* The runtime runs a due timer and a queued continuation, and time passes.
FairSpec ==
    /\ Init /\ [][NextLive]_vars
    /\ WF_vars(Tick)
    /\ WF_vars(TimerFire)
    /\ WF_vars(RequestResolved)
    /\ WF_vars(RequestRejected)

(***************************************************************************)
(* The defaults callGateway applies to its options.                        *)
(***************************************************************************)

\* The one protocol version this build speaks.
PROTOCOL_VERSION == 1

\* Mutant of Coalesce: `a || b`.
CoalesceOr(v, d) == IF Truthy(v) THEN v ELSE d

\* `a ?? b`: b when a is undefined or null, else a.
Coalesce(v, d) == IF v.t \in {"undefined", "null"} THEN d ELSE v

\* randomUUID(): the k-th call returns a token no other call returns.
randomUUID(k) == [t |-> "string", n |-> k, msg |-> <<"uuid">>]

\* The timeout and the fields of the object passed to new GatewayClient.
resolveOptions(o, calls) ==
    [resolved |-> TRUE,
     timeoutMs |-> Coalesce(o.timeoutMs, Num(10000)),
     platform |-> o.platform,
     instanceId |-> Coalesce(o.instanceId, randomUUID(calls + 1)),
     clientName |-> Coalesce(o.clientName, Str(<<"cli">>)),
     clientVersion |-> Coalesce(o.clientVersion, Str(<<"dev">>)),
     mode |-> Coalesce(o.mode, Str(<<"cli">>)),
     minProtocol |-> Coalesce(o.minProtocol, Num(PROTOCOL_VERSION)),
     maxProtocol |-> Coalesce(o.maxProtocol, Num(PROTOCOL_VERSION))]

\* randomUUID() is evaluated only when opts.instanceId is undefined or null.
uuidCallsAfter(o, calls) ==
    IF Coalesce(o.instanceId, Null) = Null THEN calls + 1 ELSE calls

\* The options tried: absent both ways, falsy but present, and ordinary.
RawOptionSets ==
    [given : {TRUE},
     timeoutMs : {Undefined, Null, Num(0), Num(2)},
     platform : {Undefined, Str(<<"linux">>)},
     instanceId : {Undefined, Null, Str(<<"app">>)},
     clientName : {Undefined, Str(<<>>)},
     clientVersion : {Null, Str(<<"app">>)},
     mode : {Undefined, Str(<<>>)},
     minProtocol : {Undefined, Num(0), Num(2)},
     maxProtocol : {Null, Num(2)}]

DefaultsInit ==
    /\ GatewayIdle /\ CommandsIdle /\ UiIdle /\ NavIdle
    /\ rawOpts \in RawOptionSets
    /\ config = NoConfig
    /\ uuidCalls = 0
    /\ issuedIds = <<>>
    /\ invocations = 0

\* callGateway evaluates its defaults.
ResolveOptions ==
    /\ rawOpts.given /\ ~config.resolved
    /\ config' = resolveOptions(rawOpts, uuidCalls)
    /\ uuidCalls' = uuidCallsAfter(rawOpts, uuidCalls)
    /\ issuedIds' = IF uuidCallsAfter(rawOpts, uuidCalls) > uuidCalls
                    THEN Append(issuedIds, randomUUID(uuidCalls + 1))
                    ELSE issuedIds
    /\ invocations' = invocations + 1
    /\ UNCHANGED <<rawOpts, gatewayVars, commandVars, uiVars, navVars>>

\* The process invokes callGateway again, with other options.
NextInvocation ==
    /\ config.resolved /\ invocations < MaxInvocations
    /\ rawOpts' \in RawOptionSets
    /\ config' = NoConfig
    /\ UNCHANGED <<uuidCalls, issuedIds, invocations, gatewayVars, commandVars,
                   uiVars, navVars>>

DefaultsNext ==
    \/ ResolveOptions
    \/ NextInvocation

DefaultsSpec == DefaultsInit /\ [][DefaultsNext]_vars

(***************************************************************************)
(* handleCommands: the chat commands tested before a message reaches the   *)
(* agent.  A message body is the sequence of its words (the body with its  *)
(* single spaces removed).  What parseActivationCommand,                   *)
(* parseSendPolicyCommand, isAbortTrigger and resolveSendPolicy return is  *)
(* an input of the call.                                                   *)
(***************************************************************************)

\* Date.now() at the time of the call.
DateNow == 1
\* The one session key and abort key of the call.
SessionKey == "main"

Reply(text) == [returned |-> TRUE, shouldContinue |-> FALSE, hasReply |-> TRUE,
                text |-> text]
NoReply == [returned |-> TRUE, shouldContinue |-> FALSE, hasReply |-> FALSE,
            text |-> <<>>]
Continue == [returned |-> TRUE, shouldContinue |-> TRUE, hasReply |-> FALSE,
             text |-> <<>>]

\* The session state a call works on.
Session ==
    [entry |-> sessionEntry, store |-> sessionStore, saved |-> savedStore,
     abortMemory |-> abortMemory, restarts |-> restarts, result |-> NoResult]

\* if (sessionEntry && sessionStore && sessionKey)
HasSession(p) == p.hasSessionEntry /\ p.hasSessionStore /\ p.hasSessionKey

\* sessionStore[sessionKey] = sessionEntry; if (storePath) await save...
StoreAndSave(p, st, e) ==
    [st EXCEPT !.entry = e, !.store = e,
               !.saved = IF p.hasStorePath THEN e ELSE @]

\* body === cmd || body === word || body.startsWith(cmd + " ")
IsCommandWord(body, cmd, word) ==
    \/ body = <<cmd>>
    \/ body = <<word>>
    \/ Len(body) > 1 /\ body[1] = cmd

\* /(?:^|\s)\/help(?=$|\s|:)\b/i on a body of words
HelpPattern(body) == \E i \in DOMAIN body : body[i] \in {"/help", "/HELP"}

helpRequested(p) ==
    \/ p.commandBodyNormalized = <<"/help">>
    \/ p.commandBodyNormalized = <<"help">>
    \/ HelpPattern(p.commandBodyNormalized)

restartRequested(p) == IsCommandWord(p.commandBodyNormalized, "/restart", "restart")

statusRequested(p) ==
    \/ p.hasStatusDirective
    \/ IsCommandWord(p.commandBodyNormalized, "/status", "status")

isActivationOwner(p) ==
    IF ~p.isWhatsAppSurface \/ p.ownerList = {}
    THEN p.isAuthorizedSender
    ELSE p.senderE164 # "" /\ p.senderE164 \in p.ownerList

\* if (activationCommand.hasCommand) { ... }
activationBranch(p, st) ==
    IF ~p.isGroup
    THEN [st EXCEPT !.result = Reply(<<"Group activation only applies to group chats.">>)]
    ELSE IF ~p.isAuthorizedSender \/ (p.isWhatsAppSurface /\ ~isActivationOwner(p))
    THEN [st EXCEPT !.result = NoReply]
    ELSE IF p.activationCommand.mode = "none"
    THEN [st EXCEPT !.result = Reply(<<"Usage: /activation mention|always">>)]
    ELSE LET st1 == IF HasSession(p)
                    THEN StoreAndSave(p, st,
                            [st.entry EXCEPT !.groupActivation = p.activationCommand.mode,
                                             !.groupActivationNeedsSystemIntro = TRUE,
                                             !.updatedAt = DateNow])
                    ELSE st
         IN  [st1 EXCEPT !.result = Reply(<<"Group activation set to",
                                            p.activationCommand.mode>>)]

\* if (sendPolicyCommand.hasCommand) { ... }
sendPolicyBranch(p, st) ==
    IF ~p.isAuthorizedSender
    THEN [st EXCEPT !.result = NoReply]
    ELSE IF p.sendPolicyCommand.mode = "none"
    THEN [st EXCEPT !.result = Reply(<<"Usage: /send on|off|inherit">>)]
    ELSE LET mode == p.sendPolicyCommand.mode
             st1 == IF HasSession(p)
                    THEN StoreAndSave(p, st,
                            [st.entry EXCEPT !.sendPolicy =
                                                IF mode = "inherit" THEN "none" ELSE mode,
                                             !.updatedAt = DateNow])
                    ELSE st
             label == IF mode = "inherit" THEN "inherit"
                      ELSE IF mode = "allow" THEN "on" ELSE "off"
         IN  [st1 EXCEPT !.result = Reply(<<"Send policy set to", label>>)]

\* Mutant of restartBranch: the sender is not checked.
restartBranchNoAuth(p, st) ==
    [st EXCEPT !.restarts = @ + 1,
               !.result = Reply(<<"Restarting clawdbot via", "restartMethod">>)]

\* if (body is /restart) { ... }
restartBranch(p, st) ==
    IF ~p.isAuthorizedSender
    THEN [st EXCEPT !.result = NoReply]
    ELSE [st EXCEPT !.restarts = @ + 1,
                    !.result = Reply(<<"Restarting clawdbot via", "restartMethod">>)]

\* if (helpRequested) { ... }
helpBranch(p, st) ==
    IF ~p.isAuthorizedSender
    THEN [st EXCEPT !.result = NoReply]
    ELSE [st EXCEPT !.result = Reply(<<"buildHelpMessage()">>)]

\* if (statusRequested) { ... }
statusBranch(p, st) ==
    IF ~p.isAuthorizedSender
    THEN [st EXCEPT !.result = NoReply]
    ELSE [st EXCEPT !.result = Reply(<<"buildStatusMessage()">>)]

\* if (abortRequested) { ... }
abortBranch(p, st) ==
    LET st1 == IF HasSession(p)
               THEN StoreAndSave(p, st,
                        [st.entry EXCEPT !.abortedLastRun = TRUE,
                                         !.updatedAt = DateNow])
               ELSE IF p.hasAbortKey
               THEN [st EXCEPT !.abortMemory = @ \cup {SessionKey}]
               ELSE st
    IN  [st1 EXCEPT !.result = Reply(<<"Agent was aborted.">>)]

\* Mutant of sendPolicyGate: a denied send continues.
sendPolicyGateOpen(p, st) ==
    [st EXCEPT !.result = Continue]

\* const sendPolicy = resolveSendPolicy(...); if (sendPolicy === "deny") ...
sendPolicyGate(p, st) ==
    IF p.sendPolicy = "deny"
    THEN [st EXCEPT !.result = NoReply]
    ELSE [st EXCEPT !.result = Continue]

handleCommands(p, st) ==
    IF p.activationCommand.hasCommand THEN activationBranch(p, st)
    ELSE IF p.sendPolicyCommand.hasCommand THEN sendPolicyBranch(p, st)
    ELSE IF restartRequested(p) THEN restartBranch(p, st)
    ELSE IF helpRequested(p) THEN helpBranch(p, st)
    ELSE IF statusRequested(p) THEN statusBranch(p, st)
    ELSE IF p.abortRequested THEN abortBranch(p, st)
    ELSE sendPolicyGate(p, st)

\* The message bodies tried.
Bodies ==
    {<<"/restart">>, <<"/restart", "/help">>, <<"help">>, <<"hi", "/help">>,
     <<"status">>, <<"/status", "/restart">>, <<"restarting">>}

ParsedCommands(modes) ==
    {[hasCommand |-> FALSE, mode |-> "none"]}
        \cup [hasCommand : {TRUE}, mode : modes \cup {"none"}]

\* const isOwner = ... in buildCommandContext
isOwner(who) ==
    \/ ~who.isWhatsAppSurface
    \/ who.ownerList = {}
    \/ who.senderE164 # "" /\ who.senderE164 \in who.ownerList

\* Who sent the message, as buildCommandContext describes them: an owner
\* list only on WhatsApp, and isAuthorizedSender only for an owner.
Senders ==
    {who \in [isWhatsAppSurface : BOOLEAN, ownerList : {{}, {"+1"}},
              senderE164 : {"", "+1", "+2"}, isAuthorizedSender : BOOLEAN] :
        /\ ~who.isWhatsAppSurface => who.ownerList = {}
        /\ who.ownerList = {} => who.senderE164 # "+2"
        /\ who.isAuthorizedSender => isOwner(who)}

\* What the caller holds of the session: nothing, an abort key only, a session
\* entry in a store, and a store with a file behind it.
SessionWirings ==
    {[hasSessionEntry |-> e, hasSessionStore |-> e, hasSessionKey |-> e,
      hasStorePath |-> f, hasAbortKey |-> k] :
        e \in BOOLEAN, f \in BOOLEAN, k \in BOOLEAN} \
    {w \in [hasSessionEntry : BOOLEAN, hasSessionStore : BOOLEAN,
            hasSessionKey : BOOLEAN, hasStorePath : BOOLEAN,
            hasAbortKey : BOOLEAN] :
        \/ w.hasStorePath /\ ~w.hasSessionStore
        \/ w.hasSessionKey /\ ~w.hasAbortKey}

ExistingEntry ==
    [present |-> TRUE, groupActivation |-> "mention",
     groupActivationNeedsSystemIntro |-> FALSE, sendPolicy |-> "deny",
     abortedLastRun |-> FALSE, updatedAt |-> 0]

CommandParams ==
    {[given |-> TRUE,
      commandBodyNormalized |-> body,
      isAuthorizedSender |-> who.isAuthorizedSender,
      isWhatsAppSurface |-> who.isWhatsAppSurface,
      ownerList |-> who.ownerList,
      senderE164 |-> who.senderE164,
      activationCommand |-> act,
      sendPolicyCommand |-> snd,
      hasStatusDirective |-> dir,
      abortRequested |-> abort,
      isGroup |-> grp,
      hasSessionEntry |-> wiring.hasSessionEntry,
      hasSessionStore |-> wiring.hasSessionStore,
      hasSessionKey |-> wiring.hasSessionKey,
      hasStorePath |-> wiring.hasStorePath,
      hasAbortKey |-> wiring.hasAbortKey,
      sendPolicy |-> policy] :
        body \in Bodies, who \in Senders,
        act \in ParsedCommands({"always"}),
        snd \in ParsedCommands({"allow", "deny", "inherit"}),
        dir \in BOOLEAN, abort \in BOOLEAN, grp \in BOOLEAN,
        wiring \in SessionWirings, policy \in {"allow", "deny"}}

CommandsInit ==
    /\ GatewayIdle /\ DefaultsIdle /\ UiIdle /\ NavIdle
    /\ cmdParams \in CommandParams
    /\ cmdResult = NoResult
    /\ sessionEntry = IF cmdParams.hasSessionEntry THEN ExistingEntry ELSE NoEntry
    /\ sessionStore = NoEntry
    /\ savedStore = NoEntry
    /\ abortMemory = {}
    /\ restarts = 0

HandleCommands ==
    /\ cmdParams.given /\ ~cmdResult.returned
    /\ LET st == handleCommands(cmdParams, Session)
       IN  /\ cmdResult' = st.result
           /\ sessionEntry' = st.entry
           /\ sessionStore' = st.store
           /\ savedStore' = st.saved
           /\ abortMemory' = st.abortMemory
           /\ restarts' = st.restarts
    /\ UNCHANGED <<cmdParams, gatewayVars, defaultsVars, uiVars, navVars>>

CommandsNext == HandleCommands

CommandsSpec == CommandsInit /\ [][CommandsNext]_vars

(***************************************************************************)
(* The control UI static file handler.  A path is the sequence of its      *)
(* segments: the pathname "/a/b" is <<"a", "b">>, "/" is <<"">> and        *)
(* "/a/" is <<"a", "">>.                                                   *)
(***************************************************************************)

\* A segment holding a NUL character.
NulSegment == "NUL"

\* The segments request targets are made of.
Segments ==
    {"", ".", "..", "assets", "app.js", "ui", "control-ui.zip", NulSegment}

\* The paths tried: req.url without its leading "/", and the relative paths
\* isSafeRelativePath is asked about.
Pathnames ==
    UNION {[1..n -> Segments] : n \in 1..MaxSegments}

\* The directory resolveControlUiRoot() finds, and the files on the disk.
ControlUiRoot == <<"srv", "control-ui">>
Files ==
    {ControlUiRoot \o <<"index.html">>,
     ControlUiRoot \o <<"assets", "app.js">>,
     <<"srv", "control-ui.zip">>,
     <<"srv", "app.js">>,
     <<"app.js">>}

\* A string starts with "/" when its first segment is empty and another
\* follows.
IsAbsolute(segs) == Len(segs) >= 2 /\ segs[1] = ""

RECURSIVE NormalizeSegments(_, _, _)
\* The segments of a normalized path: "" and "." are dropped, ".." removes
\* the segment before it, stays at the root of an absolute path and is kept
\* at the front of a relative one.
NormalizeSegments(segs, stack, absolute) ==
    IF segs = <<>> THEN stack
    ELSE LET h == Head(segs)
             t == Tail(segs)
         IN  IF h \in {"", "."} THEN NormalizeSegments(t, stack, absolute)
             ELSE IF h # ".." THEN NormalizeSegments(t, Append(stack, h), absolute)
             ELSE IF stack # <<>> /\ stack[Len(stack)] # ".."
             THEN NormalizeSegments(t, SubSeq(stack, 1, Len(stack) - 1), absolute)
             ELSE IF absolute THEN NormalizeSegments(t, stack, absolute)
             ELSE NormalizeSegments(t, Append(stack, ".."), absolute)

\* path.posix.normalize(relPath)
posixNormalize(segs) ==
    [absolute |-> IsAbsolute(segs),
     segs |-> NormalizeSegments(segs, <<>>, IsAbsolute(segs))]

\* function isSafeRelativePath(relPath)
isSafeRelativePath(relPath) ==
    LET normalized == posixNormalize(relPath)
    IN  /\ relPath # <<>> /\ relPath # <<"">>
        /\ ~(/\ ~normalized.absolute
             /\ normalized.segs # <<>>
             /\ normalized.segs[1] = "..")
        /\ \A i \in DOMAIN normalized.segs : normalized.segs[i] # NulSegment

\* path.join(root, fileRel): the two are put together and normalized.
pathJoin(root, fileRel) == NormalizeSegments(root \o fileRel, <<>>, TRUE)

\* a.startsWith(b) for two segments.
SegmentStartsWith(a, b) ==
    \/ a = b
    \/ b = ""
    \/ a = "control-ui.zip" /\ b = "control-ui"

\* filePath.startsWith(root), a test on the two strings.
startsWith(filePath, root) ==
    /\ Len(filePath) >= Len(root)
    /\ \A i \in 1..(Len(root) - 1) : filePath[i] = root[i]
    /\ SegmentStartsWith(filePath[Len(root)], root[Len(root)])

RECURSIVE RemoveDotSegments(_, _)
\* The URL parser's path state: a ".." segment removes the segment before it,
\* a "." segment is dropped, and either leaves an empty segment when it comes
\* last; a NUL is percent-encoded.
RemoveDotSegments(segs, stack) ==
    IF segs = <<>> THEN stack
    ELSE LET h == Head(segs)
             t == Tail(segs)
             last == t = <<>>
             popped == IF stack = <<>> THEN stack
                       ELSE SubSeq(stack, 1, Len(stack) - 1)
         IN  IF h = ".."
             THEN RemoveDotSegments(t, IF last THEN Append(popped, "") ELSE popped)
             ELSE IF h = "."
             THEN RemoveDotSegments(t, IF last THEN Append(stack, "") ELSE stack)
             ELSE IF h = NulSegment
             THEN RemoveDotSegments(t, Append(stack, "%00"))
             ELSE RemoveDotSegments(t, Append(stack, h))

\* The segments after the authority of a target that starts with "//".
RECURSIVE AfterAuthority(_)
AfterAuthority(segs) ==
    IF segs = <<>> THEN <<>>
    ELSE IF Head(segs) = "" THEN AfterAuthority(Tail(segs))
    ELSE Tail(segs)

\* Mutant of urlPathname: the target is used as it was sent.
urlPathnameRaw(target) == target

\* new URL(urlRaw, "http://localhost").pathname
urlPathname(target) ==
    LET path == IF Len(target) >= 2 /\ target[1] = ""
                THEN AfterAuthority(target)
                ELSE target
        segs == RemoveDotSegments(path, <<>>)
    IN  IF segs = <<>> THEN <<"">> ELSE segs

\* rel, requested and fileRel of handleControlUiHttpRequest.
fileRelOf(pathname) ==
    LET rel == IF pathname = <<"">> THEN <<>> ELSE pathname
        requested == IF rel # <<>> /\ rel[Len(rel)] # ""
                     THEN rel
                     ELSE IF rel = <<>> THEN <<"index.html">>
                     ELSE SubSeq(rel, 1, Len(rel) - 1) \o <<"index.html">>
    IN  IF requested = <<>> THEN <<"index.html">> ELSE requested

Answer(status, served, calls) ==
    [returned |-> TRUE, handled |-> TRUE, status |-> status, served |-> served,
     fsCalls |-> calls]
NotHandled ==
    [returned |-> TRUE, handled |-> FALSE, status |-> 0, served |-> <<>>,
     fsCalls |-> 0]

\* export function handleControlUiHttpRequest(req, res): the answer, the file
\* served (<<>> for none) and the number of file system calls made.
handleControlUiHttpRequest(req) ==
    IF ~req.hasUrl THEN NotHandled
    ELSE IF req.method \notin {"GET", "HEAD"} THEN Answer(405, <<>>, 0)
    ELSE LET pathname == urlPathname(req.target)
             fileRel == fileRelOf(pathname)
             filePath == pathJoin(ControlUiRoot, fileRel)
             indexPath == pathJoin(ControlUiRoot, <<"index.html">>)
         IN  IF pathname[1] = "ui" THEN Answer(404, <<>>, 0)
             ELSE IF ~req.rootFound THEN Answer(503, <<>>, 1)
             ELSE IF ~isSafeRelativePath(fileRel) THEN Answer(404, <<>>, 1)
             ELSE IF ~startsWith(filePath, ControlUiRoot) THEN Answer(404, <<>>, 1)
             ELSE IF filePath \in Files THEN Answer(200, filePath, 3)
             ELSE IF indexPath \in Files THEN Answer(200, indexPath, 4)
             ELSE Answer(404, <<>>, 3)

\* The requests tried, and the relative paths isSafeRelativePath is asked
\* about on its own.  A request without a url, or met with no root, is tried
\* with one-segment targets only.
UiRequests ==
    {r \in [given : {TRUE}, kind : {"request"}, hasUrl : BOOLEAN,
            method : {"GET", "HEAD", "POST"}, target : Pathnames,
            rootFound : BOOLEAN] :
        (~r.hasUrl \/ ~r.rootFound) => Len(r.target) = 1}
    \cup [given : {TRUE}, kind : {"relPath"}, relPath : Pathnames \cup {<<>>}]

UiInit ==
    /\ GatewayIdle /\ DefaultsIdle /\ CommandsIdle /\ NavIdle
    /\ uiRequest \in UiRequests
    /\ uiResponse = NoResponse
    /\ fsCalls = 0

HandleControlUiHttpRequest ==
    /\ uiRequest.given /\ uiRequest.kind = "request" /\ ~uiResponse.returned
    /\ uiResponse' = handleControlUiHttpRequest(uiRequest)
    /\ fsCalls' = fsCalls + handleControlUiHttpRequest(uiRequest).fsCalls
    /\ UNCHANGED <<uiRequest, gatewayVars, defaultsVars, commandVars, navVars>>

IsSafeRelativePath ==
    /\ uiRequest.given /\ uiRequest.kind = "relPath" /\ ~uiResponse.returned
    /\ uiResponse' = [returned |-> TRUE,
                      safe |-> isSafeRelativePath(uiRequest.relPath)]
    /\ UNCHANGED <<uiRequest, fsCalls, gatewayVars, defaultsVars, commandVars,
                   navVars>>

UiNext ==
    \/ HandleControlUiHttpRequest
    \/ IsSafeRelativePath

UiSpec == UiInit /\ [][UiNext]_vars

(***************************************************************************)
(* Navigation of the control UI: tabs and their paths.  A string is the    *)
(* sequence of its characters; a word without "/" or blank in it (a tab    *)
(* name, "index.html", a directory name) counts as one character.          *)
(***************************************************************************)

Tabs == {"overview", "connections", "instances", "sessions", "cron", "skills",
         "nodes", "chat", "config", "debug"}

\* const TAB_PATHS
TAB_PATHS == [t \in Tabs |-> <<"/", t>>]

\* c.toLowerCase() for the characters used.
LowerChar(c) ==
    CASE c = "CHAT" -> "chat"
      [] c = "App" -> "app"
      [] OTHER -> c

toLowerCase(str) == [i \in DOMAIN str |-> LowerChar(str[i])]

RECURSIVE trimStart(_)
trimStart(str) ==
    IF str # <<>> /\ Head(str) = " " THEN trimStart(Tail(str)) ELSE str

RECURSIVE trimEnd(_)
trimEnd(str) ==
    IF str # <<>> /\ str[Len(str)] = " "
    THEN trimEnd(SubSeq(str, 1, Len(str) - 1))
    ELSE str

\* str.trim()
trim(str) == trimEnd(trimStart(str))

\* str.startsWith(prefix), str.endsWith(suffix), str.slice(n)
strStartsWith(str, prefix) ==
    Len(str) >= Len(prefix) /\ SubSeq(str, 1, Len(prefix)) = prefix
strEndsWith(str, suffix) ==
    /\ Len(str) >= Len(suffix)
    /\ SubSeq(str, Len(str) - Len(suffix) + 1, Len(str)) = suffix
slice(str, n) == SubSeq(str, n + 1, Len(str))

\* function normalizeBasePath(basePath)
normalizeBasePath(basePath) ==
    IF basePath = <<>> THEN <<>>
    ELSE LET trimmed == trim(basePath)
             base == IF strStartsWith(trimmed, <<"/">>) THEN trimmed
                     ELSE <<"/">> \o trimmed
         IN  IF base = <<"/">> THEN <<>>
             ELSE IF strEndsWith(base, <<"/">>) THEN SubSeq(base, 1, Len(base) - 1)
             ELSE base

\* export function normalizePath(path)
normalizePath(path) ==
    IF path = <<>> THEN <<"/">>
    ELSE LET trimmed == trim(path)
             normalized == IF strStartsWith(trimmed, <<"/">>) THEN trimmed
                           ELSE <<"/">> \o trimmed
         IN  IF Len(normalized) > 1 /\ strEndsWith(normalized, <<"/">>)
             THEN SubSeq(normalized, 1, Len(normalized) - 1)
             ELSE normalized

\* Mutant of pathForTab: the base path is used as given.
pathForTabRawBase(tab, basePath) ==
    IF basePath # <<>> THEN basePath \o TAB_PATHS[tab] ELSE TAB_PATHS[tab]

\* export function pathForTab(tab, basePath = "")
pathForTab(tab, basePath) ==
    LET base == normalizeBasePath(basePath)
    IN  IF base # <<>> THEN base \o TAB_PATHS[tab] ELSE TAB_PATHS[tab]

\* export function tabFromPath(pathname, basePath = ""): a tab or "null"
tabFromPath(pathname, basePath) ==
    LET base == normalizeBasePath(basePath)
        path0 == IF pathname = <<>> THEN <<"/">> ELSE pathname
        path == IF base = <<>> THEN path0
                ELSE IF path0 = base THEN <<"/">>
                ELSE IF strStartsWith(path0, base \o <<"/">>)
                THEN slice(path0, Len(base))
                ELSE path0
        lowered == toLowerCase(normalizePath(path))
        normalized == IF strEndsWith(lowered, <<"/", "index.html">>)
                      THEN <<"/">> ELSE lowered
    IN  IF normalized = <<"/">> THEN "chat"
        ELSE IF \E t \in Tabs : TAB_PATHS[t] = normalized
        THEN CHOOSE t \in Tabs : TAB_PATHS[t] = normalized
        ELSE "null"

\* The characters base paths and pathnames are made of.
BaseChars == {"/", " ", "app", "App"}
PathChars == {"/", " ", "app", "chat", "CHAT", "nope", "index.html"}

BasePaths == UNION {[1..n -> BaseChars] : n \in 0..MaxBaseLen}
LookupBases == {<<>>, <<"/">>, <<"/", "app">>, <<"app", "/">>}
LookupPaths == UNION {[1..n -> PathChars] : n \in 0..MaxPathLen}

\* A tab to make a path for and read back, or a pathname to look up.
NavCases ==
    [kind : {"roundtrip"}, tab : Tabs, base : BasePaths]
        \cup [kind : {"lookup"}, pathname : LookupPaths, base : LookupBases]

NavInit ==
    /\ GatewayIdle /\ DefaultsIdle /\ CommandsIdle /\ UiIdle
    /\ navCase \in NavCases
    /\ navPath = IF navCase.kind = "lookup"
                 THEN [set |-> TRUE, chars |-> navCase.pathname]
                 ELSE NoPath
    /\ navResult = "pending"

PathForTab ==
    /\ navCase.kind = "roundtrip" /\ ~navPath.set
    /\ navPath' = [set |-> TRUE, chars |-> pathForTab(navCase.tab, navCase.base)]
    /\ UNCHANGED <<navCase, navResult, gatewayVars, defaultsVars, commandVars,
                   uiVars>>

TabFromPath ==
    /\ navPath.set /\ navResult = "pending"
    /\ navResult' = tabFromPath(navPath.chars, navCase.base)
    /\ UNCHANGED <<navCase, navPath, gatewayVars, defaultsVars, commandVars,
                   uiVars>>

NavNext ==
    \/ PathForTab
    \/ TabFromPath

NavSpec == NavInit /\ [][NavNext]_vars

(***************************************************************************)
(* Properties.                                                             *)
(***************************************************************************)

IsSettled(p) == p.state \in {"fulfilled", "rejected"}
Rejected(v) == [state |-> "rejected", value |-> v]
Fulfilled(v) == [state |-> "fulfilled", value |-> v]
CloseEntries == {closeLog[i] : i \in DOMAIN closeLog}

\* C1: whatever the order of handshake-ok, request resolution or rejection,
\* timer expiry and close notifications, resolve/reject of the returned
\* promise is called at most once in total, and once the promise is settled
\* its outcome (kind and value) never changes.
C1_SettledAtMostOnce ==
    /\ [](settleCalls <= 1)
    /\ [][IsSettled(promise) => promise' = promise]_vars

\* Timer expiry, a close notification and the request's continuation have all
\* happened in one invocation, and the call was settled once.
C1_Witness ==
    /\ settleCalls = 1
    /\ timer = "fired"
    /\ contDone
    /\ Len(closeLog) >= 1

\* C2: given that a due timer fires and queued continuations run, every
\* invocation of callGateway eventually settles, whatever the peer does.
C2_EventuallySettles == started ~> IsSettled(promise)

\* The peer never opened the socket and the call was settled by the timer.
C2_Witness ==
    /\ promise = Rejected(TimeoutError)
    /\ helloSent = 0
    /\ closeLog = <<>>

\* The invocation is over: settled, nothing armed, queued or outstanding.
Finished ==
    /\ started /\ settled
    /\ timer # "armed"
    /\ socket = "closed"
    /\ reqPromise.state # "pending"
    /\ ~MicrotaskPending

\* C3: callGateway calls client.stop() exactly once per invocation: never
\* more than once, and by the time the invocation is over not zero times.
C3_ClientStoppedExactlyOnce ==
    /\ Len(clientStopLog) <= 1
    /\ Finished => Len(clientStopLog) = 1

\* C4: a timer that fires on an unsettled call sets ignoreClose, calls
\* client.stop() and settles the call as the timeout failure; a call settled
\* as timeout is never so before timeoutMs has passed since the timer was
\* armed, and its client has been stopped, the connection not left open.
C4_TimeoutPath ==
    /\ [][(timer = "armed" /\ timer' = "fired" /\ ~settled)
            => /\ ignoreClose'
               /\ Len(clientStopLog') = Len(clientStopLog) + 1
               /\ promise' = Rejected(TimeoutError)]_vars
    /\ [](promise = Rejected(TimeoutError)
            => /\ now >= armedAt + opts.timeoutMs
               /\ Len(clientStopLog) >= 1
               /\ stopped
               /\ socket \notin {"connecting", "open"})

\* The request was sent, the peer never answered it, and the call timed out
\* after a timeout that is not zero.
C4_Witness ==
    /\ promise = Rejected(TimeoutError)
    /\ Len(requestFrames) = 1
    /\ opts.timeoutMs > 0
    /\ now = armedAt + opts.timeoutMs

\* C5: a close notification delivered after callGateway has called
\* client.stop() makes no settlement attempt and leaves the outcome as it was.
C5_StrayCloseIgnored ==
    \A e \in CloseEntries :
        e.stopCalls >= 1 => e.attempts = 0 /\ e.promiseAfter = e.promiseBefore

\* A close was delivered after callGateway's own client.stop().
C5_Witness ==
    \E e \in CloseEntries : e.stopCalls >= 1 /\ IsSettled(e.promiseBefore)

\* C6: a close notification delivered while the call is unsettled and
\* ignoreClose is false settles the call as a failure whose error carries
\* exactly that code and that reason.
C6_UnexpectedCloseFails ==
    \A e \in CloseEntries :
        (~e.settled /\ ~e.ignoreClose)
            => /\ e.promiseAfter.state = "rejected"
               /\ e.promiseAfter.value.t = "Error"
               /\ e.promiseAfter.value.msg =
                      <<"gateway closed (", ToString(e.code), "): ", e.reason>>
               /\ e.attempts = 1

\* An unexpected close arrived while the request was awaiting its response.
C6_Witness ==
    \E e \in CloseEntries :
        /\ ~e.settled /\ ~e.ignoreClose /\ e.awaiting
        /\ e.code = 1006 /\ e.reason = "going away"
        /\ promise = e.promiseAfter

\* C7: when the continuation of a request that resolved with v runs on an
\* unsettled call, the call resolves with exactly v.
C7_ResolvesWithResult ==
    [][(~contDone /\ contDone' /\ reqPromise.state = "fulfilled" /\ ~settled)
         => promise' = Fulfilled(reqPromise.value)]_vars

\* The echo peer: ping answered with "pong", and the call resolved with it.
C7_Witness ==
    /\ opts.method = "ping"
    /\ contDone
    /\ reqPromise = Fulfilled(Str(<<"pong">>))
    /\ promise = Fulfilled(Str(<<"pong">>))

\* C8: when the continuation of a request that was rejected with e runs on an
\* unsettled call, the call is rejected with exactly e, for every value e.
C8_RejectsWithError ==
    [][(~contDone /\ contDone' /\ reqPromise.state = "rejected" /\ ~settled)
         => promise' = Rejected(reqPromise.value)]_vars

\* C9: after a hello-ack that confirms a protocol outside
\* [minProtocol, maxProtocol] the call is settled as the negotiation failure
\* and no request has been issued or sent.
C9_NegotiationFailure ==
    (lastAck.kind = "ok"
        /\ ~(opts.minProtocol <= lastAck.protocol /\ lastAck.protocol <= opts.maxProtocol))
        => /\ promise = Rejected(CloseError(NegotiationCode, NegotiationReason))
           /\ requestFrames = <<>>
           /\ requestsIssued = 0
           /\ helloOkFired = 0

\* The peer confirmed a protocol above the requested range, and later closed
\* the socket.
C9_Witness ==
    /\ lastAck.kind = "ok"
    /\ lastAck.protocol > opts.maxProtocol
    /\ socket = "closed"
    /\ IsSettled(promise)

\* C10: at each of callGateway's client.stop() calls ignoreClose is already
\* true, and every close notification raised from inside such a stop() or
\* later finds ignoreClose true.
C10_IgnoreCloseBeforeStop ==
    /\ \A i \in DOMAIN clientStopLog : clientStopLog[i]
    /\ \A e \in CloseEntries : e.stopCalls >= 1 => e.ignoreClose

\* client.stop() was called from the timer and from the continuation of the
\* rejected request, and a close notification followed a stop.
C10_Witness ==
    /\ Len(clientStopLog) = 2
    /\ timer = "fired"
    /\ \E e \in CloseEntries : e.stopCalls >= 1

\* C11: once the call is settled by a path other than the timer, the timer
\* is cleared and stays so: the timeout callback never runs afterwards, so it
\* makes no later client.stop() call and no later settlement attempt.
C11_TimerCleared ==
    /\ []((settled /\ timer # "fired") => timer = "cleared")
    /\ [][timer = "cleared" => timer' = "cleared"]_vars
    /\ [][(settled /\ timer # "fired")
            => /\ timer' # "fired"
               /\ settleCalls' = settleCalls]_vars

\* The call resolved, and the deadline is reached with the timer cleared.
C11_Witness ==
    /\ promise.state = "fulfilled"
    /\ timer = "cleared"
    /\ opts.timeoutMs > 0
    /\ now >= armedAt + opts.timeoutMs

\* C12: client.start() is called with the hooks registered and the timer
\* armed, and no notification of the client finds a hook missing.
C12_StartLast ==
    /\ \A i \in DOMAIN startLog : startLog[i].hooks /\ startLog[i].timer = "armed"
    /\ lostEvents = 0
    /\ (helloOkFired > 0 \/ closeLog # <<>>) => hooksRegistered /\ Len(startLog) = 1

\* The client was started and has delivered both a handshake-ok and a close.
C12_Witness ==
    /\ Len(startLog) = 1
    /\ helloOkFired = 1
    /\ Len(closeLog) >= 1

\* C13: the timer is armed once, before start(); its arming time and delay
\* never change afterwards, it is never armed again, and when it fires on a
\* call still connecting or handshaking the call settles as timeout.
C13_SingleBudget ==
    /\ [](\A i \in DOMAIN startLog : startLog[i].timer = "armed")
    /\ [][started => /\ armedAt' = armedAt
                     /\ opts' = opts
                     /\ (timer # "armed" => timer' # "armed")]_vars
    /\ [][(timer = "armed" /\ timer' = "fired"
             /\ clientState \in {"Connecting", "Handshaking"})
            => promise' = Rejected(TimeoutError)]_vars
    /\ [](timer = "fired" => now >= armedAt + opts.timeoutMs)

\* The handshake never completed and the timer fired on the handshaking call.
C13_Witness ==
    /\ promise = Rejected(TimeoutError)
    /\ helloSent = 1
    /\ lastAck = NoAck
    /\ helloOkFired = 0
    /\ opts.timeoutMs > 0

\* C14: a request is issued, and a request frame sent, only after the
\* handshake-ok notification, which follows an in-range hello-ack; no frame
\* is received for a request before onHelloOk has fired.
C14_RequestAfterHelloOk ==
    /\ requestsIssued <= helloOkFired
    /\ Len(requestFrames) <= helloOkFired
    /\ requestFrames # <<>>
         => /\ lastAck.kind = "ok"
            /\ opts.minProtocol <= lastAck.protocol
            /\ lastAck.protocol <= opts.maxProtocol
    /\ (partialsSeen > 0 \/ foreignSeen \/ reqPromise.state # "none")
         => helloOkFired >= 1

\* The handshake completed, one request frame was sent and it was answered.
C14_Witness ==
    /\ helloOkFired = 1
    /\ Len(requestFrames) = 1
    /\ reqPromise.state = "fulfilled"
    /\ lastAck.protocol = opts.maxProtocol

\* C15: a close that arrives while the request is outstanding, before any
\* client.stop() of callGateway, settles the call once, as that close
\* failure, and a later rejection of the request does not change it.
C15_CloseWhileAwaiting ==
    \A e \in CloseEntries :
        (e.awaiting /\ e.stopCalls = 0)
            => /\ ~e.settled
               /\ promise = Rejected(CloseError(e.code, e.reason))
               /\ settleCalls = 1

\* The socket closed on the outstanding request, the client then failed the
\* request, and its continuation has run.
C15_Witness ==
    /\ \E e \in CloseEntries : e.awaiting /\ e.stopCalls = 0
    /\ reqPromise = Rejected(AbandonedError)
    /\ contDone

\* A frame (id, kind, final, v) is received and handled.
FrameStep(id, kind, final, v) ==
    /\ ~MicrotaskPending
    /\ socket = "open" /\ clientState = "AwaitingResponse"
    /\ Commit(handleFrame(World, id, kind, final, v))

FrameKinds == {"partial", "result", "error"}
FrameValues == ResultValues \cup RejectValues

C17_ForeignFrameIgnored ==
    /\ [][\A id \in CorrelationIds, kind \in FrameKinds, final \in BOOLEAN,
             v \in FrameValues :
             ((\A p \in pendingCalls : p.id # id) /\ FrameStep(id, kind, final, v))
                => /\ clientState' = "AwaitingResponse"
                   /\ UNCHANGED <<reqPromise, promise, settled, pendingCalls,
                                  settleCalls, closeLog, socket, stopped,
                                  ignoreClose, timer, contDone>>]_vars
    /\ []((foreignSeen /\ reqPromise.state = "fulfilled" /\ contDone)
            => promise = Fulfilled(reqPromise.value))
    /\ []((foreignSeen /\ reqPromise.state = "pending" /\ socket = "open"
             /\ ~stopped)
            => pendingCalls # {} /\ clientState = "AwaitingResponse")

\* A foreign frame was received first; the correlated answer then resolved
\* the call.
C17_Witness ==
    /\ foreignSeen
    /\ contDone
    /\ promise = Fulfilled(Str(<<"pong">>))

\* C18: the client holds at most one PendingCall; it holds one only while
\* the request it sent is unanswered, and none once the request is settled.
C18_OnePendingCall ==
    /\ Cardinality(pendingCalls) <= 1
    /\ pendingCalls # {}
         => /\ reqPromise.state = "pending"
            /\ Len(requestFrames) = 1
            /\ \A p \in pendingCalls : p.id = requestFrames[1].id
    /\ reqPromise.state \in {"fulfilled", "rejected"} => pendingCalls = {}
    /\ Len(requestFrames) <= 1

\* The request was sent and answered: the PendingCall is gone.
C18_Witness ==
    /\ Len(requestFrames) = 1
    /\ reqPromise.state = "rejected"
    /\ reqPromise.value # AbandonedError
    /\ pendingCalls = {}

\* C19: after a close notified before the handshake completed, on a call not
\* yet settled, onHelloOk never fires, no request is issued and the call is
\* the close failure.
C19_CloseBeforeHandshake ==
    \A e \in CloseEntries :
        (e.helloOk = 0 /\ ~e.settled /\ ~e.ignoreClose)
            => /\ helloOkFired = 0
               /\ requestsIssued = 0
               /\ requestFrames = <<>>
               /\ promise = Rejected(CloseError(e.code, e.reason))

\* The socket closed while the client was handshaking.
C19_Witness ==
    /\ helloSent = 1
    /\ lastAck = NoAck
    /\ Len(closeLog) = 1
    /\ closeLog[1].helloOk = 0 /\ ~closeLog[1].settled /\ ~closeLog[1].ignoreClose
    /\ closeLog[1].code = 1006

\* What of the client an owner can observe.
ClientView(w) ==
    <<w.clientState, w.socket, w.pendingCalls, w.reqPromise, w.helloSent,
      w.requestFrames, w.closeLog, w.helloOkFired, w.promise, w.settled>>

\* C20: stop() is idempotent: a second stop() changes nothing at all, and a
\* stop() on a client whose socket is already closed changes nothing that can
\* be observed and notifies nobody.
C20_StopIdempotent ==
    /\ [](\A s1 \in BOOLEAN, s2 \in BOOLEAN :
             clientStop(clientStop(World, s1), s2) = clientStop(World, s1))
    /\ [](socket = "closed"
             => \A s1 \in BOOLEAN : ClientView(clientStop(World, s1)) = ClientView(World))
    /\ [][(Len(clientStopLog') > Len(clientStopLog) /\ (stopped \/ socket = "closed"))
            => UNCHANGED <<clientState, socket, pendingCalls, closeLog,
                           helloSent, requestFrames, helloOkFired>>]_vars

\* callGateway has called client.stop() twice, the second time on a client
\* already stopped and closed.
C20_Witness ==
    /\ Len(clientStopLog) = 2
    /\ stopped
    /\ socket = "closed"
    /\ Len(closeLog) = 1

Absent(v) == v = Undefined \/ v = Null

\* What a resolved field must be, given the option and the documented default.
DefaultedTo(given, got, default) ==
    IF Absent(given) THEN got = default ELSE got = given

\* C21: every option that is undefined or null takes its documented default
\* (10000, "cli", "dev", "cli", the protocol version for both ends of the
\* range, a fresh id), every other value, 0 and "" included, is passed through
\* unchanged; randomUUID() is called exactly for an absent instanceId and
\* never returns the same id twice.
C21_Defaults ==
    /\ [](config.resolved
            => /\ DefaultedTo(rawOpts.timeoutMs, config.timeoutMs, Num(10000))
               /\ DefaultedTo(rawOpts.clientName, config.clientName, Str(<<"cli">>))
               /\ DefaultedTo(rawOpts.clientVersion, config.clientVersion, Str(<<"dev">>))
               /\ DefaultedTo(rawOpts.mode, config.mode, Str(<<"cli">>))
               /\ DefaultedTo(rawOpts.minProtocol, config.minProtocol, Num(PROTOCOL_VERSION))
               /\ DefaultedTo(rawOpts.maxProtocol, config.maxProtocol, Num(PROTOCOL_VERSION))
               /\ config.platform = rawOpts.platform
               /\ IF Absent(rawOpts.instanceId)
                  THEN /\ issuedIds # <<>>
                       /\ config.instanceId = issuedIds[Len(issuedIds)]
                  ELSE config.instanceId = rawOpts.instanceId)
    /\ [](\A i, j \in DOMAIN issuedIds : i # j => issuedIds[i] # issuedIds[j])
    /\ [](Len(issuedIds) = uuidCalls)
    /\ [][(~config.resolved /\ config'.resolved)
            => uuidCalls' = IF Absent(rawOpts.instanceId) THEN uuidCalls + 1
                            ELSE uuidCalls]_vars

\* A second invocation with timeoutMs = 0, an empty mode and no instanceId:
\* 0 and "" are kept, the id is the second generated one, the range is the
\* single protocol version.
C21_Witness ==
    /\ config.resolved
    /\ rawOpts.timeoutMs = Num(0) /\ config.timeoutMs = Num(0)
    /\ rawOpts.mode = Str(<<>>) /\ config.mode = Str(<<>>)
    /\ rawOpts.clientVersion = Null /\ config.clientVersion = Str(<<"dev">>)
    /\ rawOpts.minProtocol = Undefined /\ rawOpts.maxProtocol = Null
    /\ config.minProtocol = config.maxProtocol
    /\ Len(issuedIds) = 2 /\ config.instanceId = issuedIds[2]

\* C22: a callback is one step, and stop()'s test and assignment of settled
\* fall inside it: between callbacks the flag agrees with the promise, a
\* callback that finds settled set settles nothing, and the callback that
\* settles found it clear and leaves it set.
C22_CheckAndSetAtomic ==
    /\ [](started => /\ settled <=> IsSettled(promise)
                     /\ settled <=> settleCalls = 1)
    /\ [][settled => settled' /\ settleCalls' = settleCalls]_vars
    /\ [][settleCalls' # settleCalls
            => ~settled /\ settled' /\ settleCalls' = settleCalls + 1]_vars

\* The timer callback settled the call; the continuation of the abandoned
\* request ran afterwards and reached stop() as well.
C22_Witness ==
    /\ timer = "fired"
    /\ reqPromise = Rejected(AbandonedError)
    /\ contDone
    /\ Len(clientStopLog) = 2
    /\ settleCalls = 1

\* C23: the promise is fulfilled only when onHelloOk fired, a request was
\* issued and that request was fulfilled with the value the promise carries;
\* the timer, a close and a rejected request never fulfil it.
C23_ResolvesOnlyViaRequest ==
    promise.state = "fulfilled"
        => /\ helloOkFired >= 1
           /\ requestsIssued >= 1
           /\ reqPromise = Fulfilled(promise.value)

\* C24: one invocation issues at most one request, onHelloOk is notified at
\* most once, and the step that issues the request starts from an unsettled
\* call that has issued none.
C24_AtMostOneRequest ==
    /\ [](requestsIssued <= 1 /\ helloOkFired <= 1 /\ Len(requestFrames) <= 1)
    /\ [][requestsIssued' # requestsIssued
            => /\ ~settled
               /\ requestsIssued = 0
               /\ closeLog = <<>>
               /\ timer = "armed"]_vars
    /\ [][settled => /\ requestsIssued' = requestsIssued
                     /\ requestFrames' = requestFrames
                     /\ helloOkFired' = helloOkFired]_vars

\* The request went out, the timer then rejected the call and the close of the
\* stopped client was notified: still one request.
C24_Witness ==
    /\ requestsIssued = 1
    /\ helloOkFired = 1
    /\ promise = Rejected(TimeoutError)
    /\ Len(closeLog) = 1

\* The promise was rejected by onClose, with the error of a close that was
\* neither ignored nor late.
IsCloseFailure ==
    \E e \in CloseEntries :
        /\ ~e.settled /\ ~e.ignoreClose
        /\ promise = Rejected(CloseError(e.code, e.reason))

\* C25: between callbacks, a settled call whose ignoreClose is still false is
\* an unexpected-close failure; every other settlement has ignoreClose set and
\* at least one client.stop() call behind it; settled and ignoreClose are never
\* reset.
C25_SettledFlagsInvariant ==
    /\ []((settled /\ ~ignoreClose) => IsCloseFailure)
    /\ []((settled /\ ~IsCloseFailure)
            => /\ ignoreClose
               /\ Len(clientStopLog) >= 1
               /\ \/ promise = Rejected(TimeoutError)
                  \/ reqPromise.state \in {"fulfilled", "rejected"})
    /\ [][settled => settled']_vars
    /\ [][ignoreClose => ignoreClose']_vars

\* The socket closed on the outstanding request: settled as the close failure
\* with ignoreClose false and no client.stop() call.
C25_Witness ==
    /\ settled /\ ~ignoreClose
    /\ requestsIssued = 1
    /\ clientStopLog = <<>>
    /\ promise = Rejected(CloseError(1000, ""))

\* The commands a message matches, in the order handleCommands tests them.
CommandOrder == <<"activation", "send", "restart", "help", "status", "abort">>

Matches(p, c) ==
    CASE c = "activation" -> p.activationCommand.hasCommand
      [] c = "send" -> p.sendPolicyCommand.hasCommand
      [] c = "restart" -> restartRequested(p)
      [] c = "help" -> helpRequested(p)
      [] c = "status" -> statusRequested(p)
      [] c = "abort" -> p.abortRequested

FirstMatch(p, c) ==
    \E i \in DOMAIN CommandOrder :
        /\ CommandOrder[i] = c
        /\ Matches(p, c)
        /\ \A j \in 1..(i - 1) : ~Matches(p, CommandOrder[j])

\* The replies each command can give.
RepliesOf(c) ==
    CASE c = "activation" ->
            {<<"Group activation only applies to group chats.">>,
             <<"Usage: /activation mention|always">>,
             <<"Group activation set to", "mention">>,
             <<"Group activation set to", "always">>}
      [] c = "send" ->
            {<<"Usage: /send on|off|inherit">>, <<"Send policy set to", "on">>,
             <<"Send policy set to", "off">>, <<"Send policy set to", "inherit">>}
      [] c = "restart" -> {<<"Restarting clawdbot via", "restartMethod">>}
      [] c = "help" -> {<<"buildHelpMessage()">>}
      [] c = "status" -> {<<"buildStatusMessage()">>}
      [] c = "abort" -> {<<"Agent was aborted.">>}

\* C26: shouldContinue is true exactly when the message matches none of the
\* six commands and the resolved send policy is not "deny"; the first command
\* matched, in the order activation, send policy, restart, help, status,
\* abort, is the one whose answer is returned.
C26_ShouldContinue ==
    cmdResult.returned
        => /\ cmdResult.shouldContinue
                <=> /\ \A i \in DOMAIN CommandOrder : ~Matches(cmdParams, CommandOrder[i])
                    /\ cmdParams.sendPolicy # "deny"
           /\ cmdResult.shouldContinue => ~cmdResult.hasReply
           /\ \A i \in DOMAIN CommandOrder :
                 (FirstMatch(cmdParams, CommandOrder[i]) /\ cmdResult.hasReply)
                    => cmdResult.text \in RepliesOf(CommandOrder[i])
           /\ (cmdResult.hasReply /\ cmdResult.text # <<"Restarting clawdbot via", "restartMethod">>)
                 => restarts = 0
           /\ FirstMatch(cmdParams, "restart")
                 => (restarts = 1 <=> cmdParams.isAuthorizedSender)

\* A body that is both a restart and a help command, from an authorized
\* sender: restart answers.  (And a plain message that is let through.)
C26_Witness ==
    /\ cmdResult.returned
    /\ cmdParams.commandBodyNormalized = <<"/restart", "/help">>
    /\ ~cmdParams.activationCommand.hasCommand
    /\ ~cmdParams.sendPolicyCommand.hasCommand
    /\ cmdParams.abortRequested
    /\ cmdResult.text = <<"Restarting clawdbot via", "restartMethod">>
    /\ restarts = 1

\* C27: for an unauthorized sender, when the command that decides is an
\* activation command in a group chat, a send-policy, restart, help or status
\* command, the call returns shouldContinue = false and no reply, restarts
\* nothing and leaves the session entry, the store and its file as they were.
C27_UnauthorizedCommandsSilent ==
    (cmdResult.returned /\ ~cmdParams.isAuthorizedSender
        /\ \/ FirstMatch(cmdParams, "activation") /\ cmdParams.isGroup
           \/ FirstMatch(cmdParams, "send")
           \/ FirstMatch(cmdParams, "restart")
           \/ FirstMatch(cmdParams, "help")
           \/ FirstMatch(cmdParams, "status"))
        => /\ ~cmdResult.shouldContinue
           /\ ~cmdResult.hasReply
           /\ restarts = 0
           /\ sessionEntry = (IF cmdParams.hasSessionEntry THEN ExistingEntry ELSE NoEntry)
           /\ sessionStore = NoEntry
           /\ savedStore = NoEntry
           /\ abortMemory = {}

\* An unauthorized sender's "/restart" with a session and a store file at
\* hand: no reply, no restart.
C27_Witness ==
    /\ cmdResult.returned
    /\ ~cmdParams.isAuthorizedSender
    /\ cmdParams.commandBodyNormalized = <<"/restart">>
    /\ FirstMatch(cmdParams, "restart")
    /\ cmdParams.hasSessionEntry /\ cmdParams.hasStorePath
    /\ cmdResult = NoReply

\* C28: a call for an unauthorized sender leaves the session entry, the
\* session store, the saved store file and the abort memory unchanged.
C28_UnauthorizedFrame ==
    [][(cmdParams.given /\ ~cmdParams.isAuthorizedSender)
          => UNCHANGED <<sessionEntry, sessionStore, savedStore, abortMemory>>]_vars

\* A path lies under the root when the root's segments are its proper prefix.
UnderRoot(path) ==
    /\ Len(path) > Len(ControlUiRoot)
    /\ SubSeq(path, 1, Len(ControlUiRoot)) = ControlUiRoot

RECURSIVE Climbs(_, _)
\* Walking a relative path from its start, some ".." leads above the start.
Climbs(segs, depth) ==
    IF segs = <<>> THEN FALSE
    ELSE LET h == Head(segs)
         IN  IF h \in {"", "."} THEN Climbs(Tail(segs), depth)
             ELSE IF h = ".." THEN depth = 0 \/ Climbs(Tail(segs), depth - 1)
             ELSE Climbs(Tail(segs), depth + 1)

\* C29: a file that is served exists under the control UI root and was asked
\* for with GET or HEAD, whatever dot segments the request target holds; a
\* method other than GET and HEAD is answered 405 with no file system call;
\* isSafeRelativePath refuses the empty path, a relative path that climbs
\* above its start and a path that keeps a NUL.
C29_ServesOnlyUnderRoot ==
    /\ (uiResponse.returned /\ uiRequest.kind = "request" /\ uiRequest.hasUrl)
        => /\ uiResponse.handled
           /\ uiResponse.status \in {200, 404, 405, 503}
           /\ uiResponse.served # <<>>
                 <=> uiResponse.status = 200
           /\ uiResponse.served # <<>>
                 => /\ UnderRoot(uiResponse.served)
                    /\ uiResponse.served \in Files
                    /\ uiRequest.method \in {"GET", "HEAD"}
           /\ uiRequest.method \notin {"GET", "HEAD"}
                 => /\ uiResponse.status = 405
                    /\ fsCalls = 0
    /\ (uiResponse.returned /\ uiRequest.kind = "relPath")
        => /\ uiRequest.relPath = <<>> => ~uiResponse.safe
           /\ (~IsAbsolute(uiRequest.relPath) /\ Climbs(uiRequest.relPath, 0))
                 => ~uiResponse.safe
           /\ (\E i \in DOMAIN uiRequest.relPath :
                  /\ uiRequest.relPath[i] = NulSegment
                  /\ ~Climbs(SubSeq(uiRequest.relPath, i + 1,
                                    Len(uiRequest.relPath)), 0))
                 => ~uiResponse.safe
           /\ (\A i \in DOMAIN uiRequest.relPath :
                  uiRequest.relPath[i] \in {"assets", "app.js"})
                 => (uiResponse.safe <=> uiRequest.relPath # <<>>)

\* GET //../control-ui.zip, a file that exists next to the root: the target's
\* dot segment is gone before the path is joined to the root, and the file
\* served is the root's index.html.
C29_Witness ==
    /\ uiResponse.returned
    /\ uiRequest.kind = "request"
    /\ uiRequest.hasUrl /\ uiRequest.rootFound
    /\ uiRequest.method = "GET"
    /\ uiRequest.target = <<"..", "..", "control-ui.zip">>
    /\ uiResponse.status = 200
    /\ uiResponse.served = ControlUiRoot \o <<"index.html">>

\* The words of a string: its characters other than "/" and the blank.
Words(str) == SelectSeq(str, LAMBDA c : c \notin {"/", " "})

\* A path written the plain way: a slash before each word, nothing else.
IsPlain(str) ==
    /\ Len(str) >= 2 /\ Len(str) % 2 = 0
    /\ \A i \in DOMAIN str :
          IF i % 2 = 1 THEN str[i] = "/" ELSE str[i] \in {"app", "chat", "nope"}

\* C30: the path pathForTab makes for a tab under a base path is read back
\* by tabFromPath, under that base path, as the same tab; "/" and a path
\* ending in /index.html are read as "chat"; a path that names no tab is read
\* as null, and tabFromPath never answers a tab the path does not end in.
C30_NavigationRoundTrip ==
    navResult # "pending"
        => /\ navCase.kind = "roundtrip" => navResult = navCase.tab
           /\ navPath.chars = <<"/">> => navResult = "chat"
           /\ strEndsWith(navPath.chars, <<"/", "index.html">>) => navResult = "chat"
           /\ (navCase.kind = "lookup" /\ navCase.base = <<>> /\ IsPlain(navPath.chars))
                 => navResult = IF navPath.chars = <<"/", "chat">> THEN "chat" ELSE "null"
           /\ (navResult \notin {"null", "chat"})
                 => /\ Words(navPath.chars) # <<>>
                    /\ navResult = Words(navPath.chars)[Len(Words(navPath.chars))]
           /\ (/\ Words(navPath.chars) # <<>>
               /\ Words(navPath.chars)[Len(Words(navPath.chars))] \in {"app", "App", "nope"}
               /\ Words(navPath.chars) # Words(navCase.base))
                 => navResult = "null"

\* The tab "cron" under the base path "App/" goes out as /App/cron and comes
\* back as "cron".
C30_Witness ==
    /\ navCase.kind = "roundtrip"
    /\ navCase.tab = "cron"
    /\ navCase.base = <<"App", "/">>
    /\ navPath.set /\ navPath.chars = <<"/", "App", "/", "cron">>
    /\ navResult = "cron"

====
